---------------------------- MODULE Spec2Model ----------------------------
(***************************************************************************)
(* The per-frame simulation step of the space shooter (src/main.go):       *)
(* Game.Update with everything it calls (Ship.Move, reset, collides,       *)
(* collidesWithShip, collidesWithPowerUp, collidesWithEnemyShip,           *)
(* getDamage, generateAsteroid, splitAsteroid, spawnPowerUp,               *)
(* activatePowerUp) and NewGame.                                           *)
(*                                                                         *)
(* Numbers.  Positions, sizes and speeds are float64 in the code.  Every   *)
(* value the model lets the environment draw is an integer and every angle *)
(* a multiple of pi/2, so all positions stay integers; an angle is kept    *)
(* as its number of quarter turns (Angle = q stands for q*pi/2).  The one  *)
(* float64 value that is not a number, NaN (0/0 in the enemy step), is     *)
(* kept as the flag NaN of the enemy ship.  sqrt(dx*dx+dy*dy) <= r is      *)
(* decided as dx*dx+dy*dy <= r*r, which is the same for integers.          *)
(*                                                                         *)
(* Clock.  time.Now() is a reading of the variable now, in whole seconds.  *)
(* One Update reads the clock once: now' = now + dt, and every time.Now()  *)
(* and time.Since() of that Update sees now'.                              *)
(*                                                                         *)
(* Not modelled: drawing, sound, the polygon vertices of an asteroid and   *)
(* the difficulty scalars (asteroidSpawnRate, asteroidSpeed,               *)
(* enemyShipSpeed, gameTime as a field), which Update writes and nothing   *)
(* reads.                                                                  *)
(***************************************************************************)
EXTENDS Integers, Sequences, FiniteSets, TLC

VARIABLES
    ship,                 \* Game.ship: [X, Y, Angle, Size, Health]
    enemyShip,            \* Game.enemyShip: Nil or [nil, X, Y, NaN, Size, Health, Speed]
    gameStartTime,        \* Game.gameStartTime
    bullets,              \* Game.bullets: sequence of [X, Y, Angle, Damage, id]
    asteroids,            \* Game.asteroids: sequence of [X, Y, NumVertices, Size, Angle, Speed, Health]
    powerUps,             \* Game.powerUps: sequence of [X, Y, Type]
    score,                \* Game.score
    highScore,            \* Game.highScore
    powerUp,              \* Game.powerUp
    powerUpEnd,           \* Game.powerUpEnd
    gameOver,             \* Game.gameOver
    lastPowerUpSpawn,     \* Game.lastPowerUpSpawn
    state,                \* Game.state
    asteroidsDefeated,    \* Game.asteroidsDefeated
    enemyShipsDestroyed,  \* Game.enemyShipsDestroyed
    now,                  \* the clock: the reading the last Update took
    keys,                 \* the input snapshot the last Update received
    nextId,               \* history: the number of bullets fired so far (the id of the next)
    splits                \* history: the number of calls of splitAsteroid so far

vars == <<ship, enemyShip, gameStartTime, bullets, asteroids, powerUps, score,
          highScore, powerUp, powerUpEnd, gameOver, lastPowerUpSpawn, state,
          asteroidsDefeated, enemyShipsDestroyed, now, keys, nextId,
          splits>>

-----------------------------------------------------------------------------
(* Program constants *)

screenWidth == 800
screenHeight == 600
shipSpeed == 4
bulletSpeed == 6
maxAsteroids == 10
shipHealth == 100
powerUpDuration == 30
powerUpSpawnSecs == 30
enemySpawnSecs == 105
victorySecs == 300
enemyBonus == 100
shipSize == 20
enemySize == 30
enemyHealth == 100
powerUpHalf == 10
asteroidMargin == 50
sizeLoss == 5
minSize == 10
splitSize == 20

Playing == "Playing"
GameOver == "GameOver"
Victory == "Victory"

None == 0
Nuke == 1
DoubleDamage == 2
InfiniteAmmo == 3

\* The zero time.Time of a field NewGame does not set.  time.Since of it is
\* the largest Duration (about 9.2e9 s); the model keeps it as a reading that
\* far in the past that every duration the code compares it with is exceeded.
ZeroTime == -1000000000

\* The nil *EnemyShip.
Nil == [nil |-> TRUE]

-----------------------------------------------------------------------------
(* Arithmetic *)

\* math.Cos and math.Sin of q quarter turns.
Cos(q) == CASE q % 4 = 0 -> 1 [] q % 4 = 2 -> -1 [] OTHER -> 0
Sin(q) == CASE q % 4 = 1 -> 1 [] q % 4 = 3 -> -1 [] OTHER -> 0

Abs(x) == IF x < 0 THEN -x ELSE x

\* The length of (dx, dy), rounded down: the largest r with r*r <= dx*dx+dy*dy.
Dist(dx, dy) ==
    IF dx = 0 THEN Abs(dy)
    ELSE IF dy = 0 THEN Abs(dx)
    ELSE CHOOSE r \in 0..(Abs(dx) + Abs(dy)) :
             r * r <= dx * dx + dy * dy /\ (r + 1) * (r + 1) > dx * dx + dy * dy

\* a/b rounded toward zero.
Quot(a, b) == IF (a < 0) = (b < 0) THEN Abs(a) \div Abs(b) ELSE -(Abs(a) \div Abs(b))

\* s without its i-th element: append(s[:i], s[i+1:]...).
RemoveAt(s, i) == SubSeq(s, 1, i - 1) \o SubSeq(s, i + 1, Len(s))


-----------------------------------------------------------------------------
(* The Game the operators below pass along: the fields of the struct. *)

Game == [ship |-> ship, enemyShip |-> enemyShip, gameStartTime |-> gameStartTime,
         bullets |-> bullets, asteroids |-> asteroids, powerUps |-> powerUps,
         score |-> score, highScore |-> highScore, powerUp |-> powerUp,
         powerUpEnd |-> powerUpEnd, gameOver |-> gameOver,
         lastPowerUpSpawn |-> lastPowerUpSpawn, state |-> state,
         asteroidsDefeated |-> asteroidsDefeated,
         enemyShipsDestroyed |-> enemyShipsDestroyed, nextId |-> nextId,
         splits |-> splits]

\* Ship.Move: add (dx, dy), then clamp to the canvas.
Clamp(v, hi) == IF v < 0 THEN 0 ELSE IF v > hi THEN hi ELSE v
\* Move without the clamp.
Move_noClamp(s, dx, dy) == [s EXCEPT !.X = s.X + dx, !.Y = s.Y + dy]

Move(s, dx, dy) == [s EXCEPT !.X = Clamp(s.X + dx, screenWidth),
                             !.Y = Clamp(s.Y + dy, screenHeight)]

\* getDamage with two tiers only.
getDamage_two(asteroid) ==
    IF asteroid.Size < 20 THEN 5 ELSE 15

\* Game.getDamage: the damage tiers by asteroid size.
getDamage(asteroid) ==
    IF asteroid.Size < 20 THEN 5 ELSE IF asteroid.Size < 40 THEN 15 ELSE 25

\* Game.collides: whether the bullet is within the asteroid's size.
collides(asteroid, bullet) ==
    LET dx == bullet.X - asteroid.X
        dy == bullet.Y - asteroid.Y
    IN  dx * dx + dy * dy <= asteroid.Size * asteroid.Size

\* hit without the rule for sizes below 10.
hit_noSmallRule(asteroid, bullet) ==
    [asteroid EXCEPT !.Size = @ - sizeLoss, !.Health = @ - bullet.Damage]

\* Game.collides, the asteroid after a hit: smaller by 5, health less by the
\* bullet's damage, and health 0 once the size is below 10.
hit(asteroid, bullet) ==
    LET size == asteroid.Size - sizeLoss
        health == asteroid.Health - bullet.Damage
    IN  [asteroid EXCEPT !.Size = size,
                         !.Health = IF size < minSize THEN 0 ELSE health]

\* Game.collidesWithShip
collidesWithShip(s, asteroid) ==
    LET dx == s.X - asteroid.X
        dy == s.Y - asteroid.Y
        r == asteroid.Size + s.Size
    IN  dx * dx + dy * dy <= r * r

\* Game.collidesWithPowerUp
collidesWithPowerUp(s, p) ==
    LET dx == s.X - p.X
        dy == s.Y - p.Y
        r == s.Size + powerUpHalf
    IN  dx * dx + dy * dy <= r * r

\* Game.collidesWithEnemyShip: a comparison with NaN is false.
collidesWithEnemyShip(e, bullet) ==
    IF e.nil THEN FALSE
    ELSE IF e.NaN THEN FALSE
    ELSE LET dx == bullet.X - e.X
             dy == bullet.Y - e.Y
         IN  dx * dx + dy * dy <= e.Size * e.Size

\* Game.generateAsteroid with the random draws d = [X, Size, Angle, Speed,
\* NumVertices]: at the top edge, health = size.
generateAsteroid(G, d) ==
    [G EXCEPT !.asteroids = Append(@,
        [X |-> d.X, Y |-> -asteroidMargin, NumVertices |-> d.NumVertices,
         Size |-> d.Size, Angle |-> d.Angle, Speed |-> d.Speed, Health |-> d.Size])]

\* Game.splitAsteroid with the two random angles sa: two children at the
\* parent's place, half its size, 1.5 times its speed, health = int(size).
\* Size/2 and Speed*1.5 are exact here for an even size and an even speed.
child(asteroid, angle) ==
    [X |-> asteroid.X, Y |-> asteroid.Y, NumVertices |-> asteroid.NumVertices,
     Size |-> asteroid.Size \div 2, Angle |-> angle,
     Speed |-> (asteroid.Speed * 3) \div 2, Health |-> asteroid.Size \div 2]
\* splitAsteroid with one child only.
splitAsteroid_single(G, asteroid, sa) ==
    [G EXCEPT !.asteroids = Append(@, child(asteroid, sa[1])),
              !.splits = @ + 1]

splitAsteroid(G, asteroid, sa) ==
    [G EXCEPT !.asteroids = @ \o <<child(asteroid, sa[1]), child(asteroid, sa[2])>>,
              !.splits = @ + 1]

\* Game.spawnPowerUp with the random draws d = [X, Y, Type].
spawnPowerUp(G, d) ==
    [G EXCEPT !.powerUps = Append(@, [X |-> d.X, Y |-> d.Y, Type |-> d.Type])]

\* activatePowerUp keeping the expiry of a power-up that is still active.
activatePowerUp_keepEnd(G, powerUpType, t) ==
    [G EXCEPT !.powerUp = powerUpType,
              !.powerUpEnd = IF G.powerUp # None THEN @ ELSE t + powerUpDuration]

\* Game.activatePowerUp at clock reading t.
activatePowerUp(G, powerUpType, t) ==
    [G EXCEPT !.powerUp = powerUpType, !.powerUpEnd = t + powerUpDuration]

\* reset without the new gameStartTime.
reset_keepsStart(G, t) ==
    [G EXCEPT !.ship = [X |-> screenWidth \div 2, Y |-> screenHeight - 50,
                        Angle |-> 0, Size |-> shipSize, Health |-> shipHealth],
              !.bullets = <<>>,
              !.asteroids = <<>>,
              !.powerUps = <<>>,
              !.score = 0,
              !.powerUp = None,
              !.lastPowerUpSpawn = t,
              !.state = Playing,
              !.asteroidsDefeated = 0,
              !.enemyShipsDestroyed = 0]

\* Game.reset at clock reading t.  It leaves enemyShip, highScore, powerUpEnd
\* and gameOver as they are.
reset(G, t) ==
    [G EXCEPT !.ship = [X |-> screenWidth \div 2, Y |-> screenHeight - 50,
                        Angle |-> 0, Size |-> shipSize, Health |-> shipHealth],
              !.bullets = <<>>,
              !.asteroids = <<>>,
              !.powerUps = <<>>,
              !.score = 0,
              !.powerUp = None,
              !.lastPowerUpSpawn = t,
              !.state = Playing,
              !.gameStartTime = t,
              !.asteroidsDefeated = 0,
              !.enemyShipsDestroyed = 0]

-----------------------------------------------------------------------------
(* Game.Update, case Playing, phase by phase in the order of the code.  t   *)
(* is the clock reading of this Update and k the set of keys held.          *)

\* The enemy spawn rule: with more than 105 s elapsed and no enemy ship, a
\* new one at (ex, 0), ex the random draw.
spawnEnemy(G, t, ex) ==
    IF t - G.gameStartTime > enemySpawnSecs /\ G.enemyShip.nil
    THEN [G EXCEPT !.enemyShip = [nil |-> FALSE, X |-> ex, Y |-> 0, NaN |-> FALSE,
                                  Size |-> enemySize, Health |-> enemyHealth,
                                  Speed |-> (shipSpeed * 3) \div 2]]
    ELSE G

\* The enemy step: Speed along (dx, dy)/distance.  distance = 0 divides 0 by
\* 0: both coordinates become NaN, and stay NaN.  On an axis the step is the
\* whole Speed; off the axes it is rounded toward zero to the integer grid.
moveEnemy(e, s) ==
    LET dx == s.X - e.X
        dy == s.Y - e.Y
        d2 == dx * dx + dy * dy
    IN  IF e.NaN \/ d2 = 0 THEN [e EXCEPT !.NaN = TRUE, !.X = 0, !.Y = 0]
        ELSE [e EXCEPT !.X = @ + Quot(dx * e.Speed, Dist(dx, dy)),
                       !.Y = @ + Quot(dy * e.Speed, Dist(dx, dy))]

\* The player's bullets against the enemy ship, from the last bullet to the
\* first: a hit takes the bullet's damage and the bullet; at health <= 0 the
\* enemy is gone, the score is up by 100, and the loop ends.
RECURSIVE enemyHits_noCount(_, _)
enemyHits_noCount(G, i) ==
    IF i < 1 THEN G
    ELSE LET bullet == G.bullets[i] IN
         IF collidesWithEnemyShip(G.enemyShip, bullet)
         THEN LET G1 == [G EXCEPT !.enemyShip.Health = @ - bullet.Damage,
                                  !.bullets = RemoveAt(@, i)]
              IN  IF G1.enemyShip.Health <= 0
                  THEN [G1 EXCEPT !.enemyShip = Nil,
                                  !.score = @ + enemyBonus]
                  ELSE enemyHits_noCount(G1, i - 1)
         ELSE enemyHits_noCount(G, i - 1)

RECURSIVE enemyHits(_, _)
enemyHits(G, i) ==
    IF i < 1 THEN G
    ELSE LET bullet == G.bullets[i] IN
         IF collidesWithEnemyShip(G.enemyShip, bullet)
         THEN LET G1 == [G EXCEPT !.enemyShip.Health = @ - bullet.Damage,
                                  !.bullets = RemoveAt(@, i)]
              IN  IF G1.enemyShip.Health <= 0
                  THEN [G1 EXCEPT !.enemyShip = Nil,
                                  !.score = @ + enemyBonus,
                                  !.enemyShipsDestroyed = @ + 1]
                  ELSE enemyHits(G1, i - 1)
         ELSE enemyHits(G, i - 1)

enemyPhase(G) ==
    IF G.enemyShip.nil THEN G
    ELSE LET G1 == [G EXCEPT !.enemyShip = moveEnemy(@, G.ship)]
         IN  enemyHits(G1, Len(G1.bullets))

\* The direction checks as one chain in which the last held key alone moves
\* the ship.
moveShip_lastWins(s, k) ==
    IF "Right" \in k THEN [Move(s, shipSpeed, 0) EXCEPT !.Angle = 0]
    ELSE IF "Left" \in k THEN [Move(s, -shipSpeed, 0) EXCEPT !.Angle = 2]
    ELSE IF "Down" \in k THEN [Move(s, 0, shipSpeed) EXCEPT !.Angle = 1]
    ELSE IF "Up" \in k THEN [Move(s, 0, -shipSpeed) EXCEPT !.Angle = -1]
    ELSE s

\* The four direction checks, each on its own, in the order up, down, left,
\* right: each moves the ship and sets its angle.
moveShip(s, k) ==
    LET s1 == IF "Up" \in k THEN [Move(s, 0, -shipSpeed) EXCEPT !.Angle = -1] ELSE s
        s2 == IF "Down" \in k THEN [Move(s1, 0, shipSpeed) EXCEPT !.Angle = 1] ELSE s1
        s3 == IF "Left" \in k THEN [Move(s2, -shipSpeed, 0) EXCEPT !.Angle = 2] ELSE s2
        s4 == IF "Right" \in k THEN [Move(s3, shipSpeed, 0) EXCEPT !.Angle = 0] ELSE s3
    IN  s4

\* fire with damage 1 whatever the power-up.
fire_plain(G, k) ==
    IF "Space" \in k
    THEN [G EXCEPT !.bullets = Append(@,
              [X |-> G.ship.X, Y |-> G.ship.Y, Angle |-> G.ship.Angle,
               Damage |-> 1, id |-> G.nextId]),
                   !.nextId = @ + 1]
    ELSE G

\* Fire: with Space held, one bullet at the ship's place and angle.
fire(G, k) ==
    IF "Space" \in k
    THEN [G EXCEPT !.bullets = Append(@,
              [X |-> G.ship.X, Y |-> G.ship.Y, Angle |-> G.ship.Angle,
               Damage |-> IF G.powerUp = DoubleDamage THEN 2 ELSE 1,
               id |-> G.nextId]),
                   !.nextId = @ + 1]
    ELSE G

\* Every bullet advances by bulletSpeed along its angle, from the last to the
\* first; one that leaves the canvas is removed.
advance(bullet) ==
    [bullet EXCEPT !.X = @ + bulletSpeed * Cos(bullet.Angle),
                   !.Y = @ + bulletSpeed * Sin(bullet.Angle)]
outside(bullet) ==
    bullet.X < 0 \/ bullet.X > screenWidth \/ bullet.Y < 0 \/ bullet.Y > screenHeight
\* moveBullets skipping the bullet before a removed one.
RECURSIVE moveBullets_skip(_, _)
moveBullets_skip(bs, i) ==
    IF i < 1 THEN bs
    ELSE LET b == advance(bs[i])
         IN  IF outside(b) THEN moveBullets_skip(RemoveAt(bs, i), i - 2)
             ELSE moveBullets_skip([bs EXCEPT ![i] = b], i - 1)

RECURSIVE moveBullets(_, _)
moveBullets(bs, i) ==
    IF i < 1 THEN bs
    ELSE LET b == advance(bs[i])
         IN  IF outside(b) THEN moveBullets(RemoveAt(bs, i), i - 1)
             ELSE moveBullets([bs EXCEPT ![i] = b], i - 1)

\* Every asteroid advances by its speed along its angle; one that leaves the
\* canvas widened by 50 is removed.
drift(asteroid) ==
    [asteroid EXCEPT !.X = @ + asteroid.Speed * Cos(asteroid.Angle),
                     !.Y = @ + asteroid.Speed * Sin(asteroid.Angle)]
gone(asteroid) ==
    \/ asteroid.X < -asteroidMargin \/ asteroid.X > screenWidth + asteroidMargin
    \/ asteroid.Y < -asteroidMargin \/ asteroid.Y > screenHeight + asteroidMargin
RECURSIVE moveAsteroids(_, _)
moveAsteroids(as, i) ==
    IF i < 1 THEN as
    ELSE LET a == drift(as[i])
         IN  IF gone(a) THEN moveAsteroids(RemoveAt(as, i), i - 1)
             ELSE moveAsteroids([as EXCEPT ![i] = a], i - 1)

\* Asteroids against bullets, both from the last to the first.  The first
\* bullet (from the last) within an asteroid's size hits it and is removed; an
\* asteroid whose health is then <= 0 splits if its size, after the hit, is
\* above 20, is removed, and counts one point.  One hit per asteroid and pass.
RECURSIVE hitBy(_, _, _, _)
hitBy(G, i, j, sa) ==
    IF j < 1 THEN G
    ELSE LET asteroid == G.asteroids[i]
             bullet == G.bullets[j]
         IN  IF collides(asteroid, bullet)
             THEN LET a1 == hit(asteroid, bullet)
                      G1 == [G EXCEPT !.asteroids[i] = a1,
                                      !.bullets = RemoveAt(@, j)]
                  IN  IF a1.Health <= 0
                      THEN LET G2 == IF a1.Size > splitSize
                                     THEN splitAsteroid(G1, a1, sa) ELSE G1
                           IN  [G2 EXCEPT !.asteroids = RemoveAt(@, i),
                                          !.score = @ + 1,
                                          !.asteroidsDefeated = @ + 1]
                      ELSE G1
             ELSE hitBy(G, i, j - 1, sa)
RECURSIVE shootAsteroids(_, _, _)
shootAsteroids(G, i, sa) ==
    IF i < 1 THEN G
    ELSE shootAsteroids(hitBy(G, i, Len(G.bullets), sa), i - 1, sa)

\* hitShip without the floor of the health at 0.
RECURSIVE hitShip_noFloor(_, _)
hitShip_noFloor(G, i) ==
    IF i < 1 THEN G
    ELSE LET asteroid == G.asteroids[i] IN
         IF collidesWithShip(G.ship, asteroid)
         THEN LET G1 == [G EXCEPT !.ship.Health = @ - getDamage(asteroid),
                                  !.asteroids = RemoveAt(@, i)]
                  G2 == IF G1.ship.Health <= 0
                        THEN [G1 EXCEPT !.state = GameOver,
                                        !.highScore = IF G1.score > @ THEN G1.score ELSE @]
                        ELSE G1
              IN  hitShip_noFloor(G2, i - 1)
         ELSE hitShip_noFloor(G, i - 1)

\* hitShip with the high score overwritten by the score, higher or not.
RECURSIVE hitShip_overwrite(_, _)
hitShip_overwrite(G, i) ==
    IF i < 1 THEN G
    ELSE LET asteroid == G.asteroids[i] IN
         IF collidesWithShip(G.ship, asteroid)
         THEN LET G1 == [G EXCEPT !.ship.Health = @ - getDamage(asteroid),
                                  !.asteroids = RemoveAt(@, i)]
                  G2 == IF G1.ship.Health <= 0
                        THEN [G1 EXCEPT !.ship.Health = 0,
                                        !.state = GameOver,
                                        !.highScore = G1.score]
                        ELSE G1
              IN  hitShip_overwrite(G2, i - 1)
         ELSE hitShip_overwrite(G, i - 1)

\* Asteroids against the ship, from the last to the first: a colliding
\* asteroid takes getDamage from the ship's health and is removed; at health
\* <= 0 the health is set to 0, the state to GameOver, and the high score to
\* the score if that is higher.
RECURSIVE hitShip(_, _)
hitShip(G, i) ==
    IF i < 1 THEN G
    ELSE LET asteroid == G.asteroids[i] IN
         IF collidesWithShip(G.ship, asteroid)
         THEN LET G1 == [G EXCEPT !.ship.Health = @ - getDamage(asteroid),
                                  !.asteroids = RemoveAt(@, i)]
                  G2 == IF G1.ship.Health <= 0
                        THEN [G1 EXCEPT !.ship.Health = 0,
                                        !.state = GameOver,
                                        !.highScore = IF G1.score > @ THEN G1.score ELSE @]
                        ELSE G1
              IN  hitShip(G2, i - 1)
         ELSE hitShip(G, i - 1)

\* Power-up expiry: more than powerUpDuration since powerUpEnd.
expirePowerUp(G, t) ==
    IF t - G.powerUpEnd > powerUpDuration THEN [G EXCEPT !.powerUp = None] ELSE G

\* The asteroid spawn with no cap.
spawnAsteroid_always(G, ad) ==
    generateAsteroid(G, ad)

\* The asteroid spawn rule: one more while fewer than maxAsteroids.
spawnAsteroid(G, ad) ==
    IF Len(G.asteroids) < maxAsteroids THEN generateAsteroid(G, ad) ELSE G

\* The power-up spawn rule: every 30 s.
spawnPowerUps(G, t, pd) ==
    IF t - G.lastPowerUpSpawn >= powerUpSpawnSecs
    THEN [spawnPowerUp(G, pd) EXCEPT !.lastPowerUpSpawn = t]
    ELSE G

\* The ship against the power-ups, from the last to the first: a power-up it
\* touches is activated and removed.
RECURSIVE pickUp(_, _, _)
pickUp(G, i, t) ==
    IF i < 1 THEN G
    ELSE LET p == G.powerUps[i] IN
         IF collidesWithPowerUp(G.ship, p)
         THEN pickUp([activatePowerUp(G, p.Type, t) EXCEPT !.powerUps = RemoveAt(@, i)],
                     i - 1, t)
         ELSE pickUp(G, i - 1, t)

\* checkVictory with more than, not at least, 5 minutes.
checkVictory_strict(G, t) ==
    IF t - G.gameStartTime > victorySecs THEN [G EXCEPT !.state = Victory] ELSE G

\* The victory rule: 5 minutes of game time.
checkVictory(G, t) ==
    IF t - G.gameStartTime >= victorySecs THEN [G EXCEPT !.state = Victory] ELSE G

\* case Playing, with the random draws in = [ex, ad, pd, sa].
stepPlaying(G, t, k, in) ==
    IF G.gameOver
    THEN IF "Control" \in k /\ "R" \in k
         THEN [reset(G, t) EXCEPT !.gameOver = FALSE]
         ELSE G
    ELSE LET G1 == enemyPhase(spawnEnemy(G, t, in.ex))
             G2 == fire([G1 EXCEPT !.ship = moveShip(@, k)], k)
             G3 == [G2 EXCEPT !.bullets = moveBullets(@, Len(@)),
                              !.asteroids = moveAsteroids(@, Len(@))]
             G4 == shootAsteroids(G3, Len(G3.asteroids), in.sa)
             G5 == hitShip(G4, Len(G4.asteroids))
             G6 == spawnPowerUps(spawnAsteroid(expirePowerUp(G5, t), in.ad), t, in.pd)
             G7 == pickUp(G6, Len(G6.powerUps), t)
         IN  checkVictory(G7, t)

\* stepTerminal restarting whatever the keys.
stepTerminal_anyKey(G, t, k) == reset(G, t)

\* stepTerminal with the asteroids still drifting.
stepTerminal_drift(G, t, k) ==
    IF "Space" \in k THEN reset(G, t)
    ELSE [G EXCEPT !.asteroids = moveAsteroids(@, Len(@))]

\* case GameOver, Victory: Space restarts.
stepTerminal(G, t, k) ==
    IF "Space" \in k THEN reset(G, t) ELSE G

\* Game.Update at clock reading t.
update(G, t, k, in) ==
    IF G.state = Playing THEN stepPlaying(G, t, k, in) ELSE stepTerminal(G, t, k)

-----------------------------------------------------------------------------
(* The state machine *)

\* NewGame at clock reading 0, with the random draws ad of its asteroid.
NewGame(ad) ==
    generateAsteroid(
        [ship |-> [X |-> screenWidth \div 2, Y |-> screenHeight - 50, Angle |-> 0,
                   Size |-> shipSize, Health |-> shipHealth],
         enemyShip |-> Nil, gameStartTime |-> 0, bullets |-> <<>>,
         asteroids |-> <<>>, powerUps |-> <<>>, score |-> 0, highScore |-> 0,
         powerUp |-> None, powerUpEnd |-> ZeroTime, gameOver |-> FALSE,
         lastPowerUpSpawn |-> 0, state |-> Playing, asteroidsDefeated |-> 0,
         enemyShipsDestroyed |-> 0, nextId |-> 0, splits |-> 0], ad)

\* The variables are the fields of G.
Is(G) ==
    /\ ship = G.ship /\ enemyShip = G.enemyShip /\ gameStartTime = G.gameStartTime
    /\ bullets = G.bullets /\ asteroids = G.asteroids /\ powerUps = G.powerUps
    /\ score = G.score /\ highScore = G.highScore /\ powerUp = G.powerUp
    /\ powerUpEnd = G.powerUpEnd /\ gameOver = G.gameOver
    /\ lastPowerUpSpawn = G.lastPowerUpSpawn /\ state = G.state
    /\ asteroidsDefeated = G.asteroidsDefeated
    /\ enemyShipsDestroyed = G.enemyShipsDestroyed /\ nextId = G.nextId
    /\ splits = G.splits

Becomes(G) ==
    /\ ship' = G.ship /\ enemyShip' = G.enemyShip /\ gameStartTime' = G.gameStartTime
    /\ bullets' = G.bullets /\ asteroids' = G.asteroids /\ powerUps' = G.powerUps
    /\ score' = G.score /\ highScore' = G.highScore /\ powerUp' = G.powerUp
    /\ powerUpEnd' = G.powerUpEnd /\ gameOver' = G.gameOver
    /\ lastPowerUpSpawn' = G.lastPowerUpSpawn /\ state' = G.state
    /\ asteroidsDefeated' = G.asteroidsDefeated
    /\ enemyShipsDestroyed' = G.enemyShipsDestroyed /\ nextId' = G.nextId
    /\ splits' = G.splits

\* One frame: the clock has advanced by dt, the keys k are held, and Update
\* runs with the random draws in.
Update(dt, k, in) ==
    /\ now' = now + dt
    /\ keys' = k
    /\ Becomes(update(Game, now + dt, k, in))

-----------------------------------------------------------------------------
(* Environments.  A specification fixes what the clock, the keyboard and    *)
(* math/rand may give to one Update: the clock steps dts, the key sets ins, *)
(* and the draws of generateAsteroid (ads), spawnPowerUp (pds), the enemy   *)
(* spawn (exs) and splitAsteroid (sas).  The clock stops at maxClock; Space *)
(* is not held in Playing once maxShots bullets have been fired.            *)

InitWith(ads) ==
    /\ now = 0
    /\ keys = {}
    /\ \E ad \in ads : Is(NewGame(ad))

Frame(dts, ins, exs, ads, pds, sas, maxClock, maxShots) ==
    \E dt \in dts, k \in ins, ex \in exs, ad \in ads, pd \in pds, sa \in sas :
        /\ now + dt <= maxClock
        /\ (state = Playing /\ "Space" \in k) => nextId < maxShots
        /\ Update(dt, k, [ex |-> ex, ad |-> ad, pd |-> pd, sa |-> sa])

\* Spec: whole games.  The ship flies up the column x = 400; it fires or not
\* while it is still below the line y = FireLine; the clock stands or jumps by
\* five minutes.  The first asteroid is small (one hit destroys it) and falls
\* down the ship's column; the later ones are larger and fall down the column
\* x = 424, where they meet the ship but not its bullets.
JumpSecs == 300
MaxClock == 300
MaxShots == 1
FireLine == 470

First == {[X |-> 400, Size |-> 12, Angle |-> 1, Speed |-> 3, NumVertices |-> 3]}
Column == {[X |-> 424, Size |-> 22, Angle |-> 1, Speed |-> 3, NumVertices |-> 3]}
AtStart == {[X |-> 400, Y |-> 550, Type |-> DoubleDamage]}

Init == InitWith(First)

Next ==
    \/ Frame({0, JumpSecs}, {{"Up"}}, {400}, Column, AtStart, {<<0, 2>>}, MaxClock,
             MaxShots)
    \/ /\ state = Playing => ship.Y > FireLine
       /\ Frame({0, JumpSecs}, {{"Up", "Space"}}, {400}, Column, AtStart, {<<0, 2>>},
                MaxClock, MaxShots)

Spec == Init /\ [][Next]_vars

\* A game in which the ship has flown to one of the places ships (the
\* asteroids it met went up and out at once: Vanish).
Vanish == {[X |-> 400, Size |-> 12, Angle |-> 3, Speed |-> 3, NumVertices |-> 3]}

InitAt(ships) ==
    /\ now = 0
    /\ keys = {}
    /\ \E ad \in Vanish, s \in ships :
           Is([NewGame(ad) EXCEPT !.ship.X = s.X, !.ship.Y = s.Y, !.ship.Angle = s.Angle])

\* SpecMove: movement.  The ship is at an edge, a corner, just inside an
\* edge or at its starting place, and any subset of the four direction keys is
\* held in each of MoveFrames frames of one clock unit.
MoveFrames == 2

MoveKeys == SUBSET {"Up", "Down", "Left", "Right"}
MovePlaces ==
    {[X |-> x, Y |-> y, Angle |-> 0] : x \in {0, 400, 800}, y \in {0, 2, 550, 598, 600}}

InitMove == InitAt(MovePlaces)

NextMove ==
    Frame({1}, MoveKeys, {400}, Vanish, AtStart, {<<0, 2>>}, MoveFrames, 0)

SpecMove == InitMove /\ [][NextMove]_vars

\* SpecFire: bullets.  The ship is near an edge and faces it; in each of
\* FireFrames frames it fires or not, and moves in one direction or not.
FireFrames == 4
FireShots == 3

FireKeys ==
    {{}, {"Space"}} \cup {{d, "Space"} : d \in {"Up", "Down", "Left", "Right"}}
FirePlaces ==
    {[X |-> 788, Y |-> 550, Angle |-> 0], [X |-> 8, Y |-> 550, Angle |-> 2],
     [X |-> 400, Y |-> 10, Angle |-> -1], [X |-> 400, Y |-> 590, Angle |-> 1]}

InitFire == InitAt(FirePlaces)

NextFire ==
    Frame({1}, FireKeys, {400}, Vanish, AtStart, {<<0, 2>>}, FireFrames, FireShots)

SpecFire == InitFire /\ [][NextFire]_vars

\* SpecPower: power-ups.  A new game; the ship flies down from its starting
\* place, firing or not; the clock stands or jumps by the 30 s of the power-up
\* spawn rule; a power-up appears at the ship's starting place or below it, as
\* any of the three types.
PowerJump == 30
PowerSecs == 90
PowerShots == 2

Dropped ==
    {[X |-> 400, Y |-> y, Type |-> ty] : y \in {550, 598}, ty \in {Nuke, DoubleDamage, InfiniteAmmo}}

InitPower == InitWith(Vanish)

NextPower ==
    Frame({0, PowerJump}, {{"Down"}, {"Down", "Space"}}, {400}, Vanish, Dropped,
          {<<0, 2>>}, PowerSecs, PowerShots)

SpecPower == InitPower /\ [][NextPower]_vars

\* SpecSplit: the split.  Update applied to a game that holds, 60 above the
\* ship, an asteroid that one or two hits destroy while it is still large, and
\* a ship that faces it and fires or not in each of SplitFrames frames of one
\* clock unit.  No run from NewGame holds such an asteroid (an asteroid starts
\* with health = size and a hit takes 5 of the size and at most 2 of the
\* health), so the split branch of Update and splitAsteroid are examined here
\* as functions of the game they are given.  The sizes are such that the size
\* at the split is even, and the speed is even: the halves are whole numbers.
SplitFrames == 8
SplitShots == 2

Parents ==
    {[X |-> 400, Y |-> 490, NumVertices |-> 5, Size |-> d[1], Angle |-> 1,
      Speed |-> 2, Health |-> d[2]] : d \in {<<24, 1>>, <<27, 1>>, <<31, 1>>, <<36, 2>>}}

InitSplit ==
    /\ now = 0
    /\ keys = {}
    /\ \E ad \in Vanish, p \in Parents :
           Is([NewGame(ad) EXCEPT !.ship.Angle = -1, !.asteroids = <<p>>])

NextSplit ==
    Frame({1}, {{}, {"Space"}}, {400}, Vanish, AtStart, {<<0, 2>>, <<1, 3>>},
          SplitFrames, SplitShots)

SpecSplit == InitSplit /\ [][NextSplit]_vars

\* SpecShoot: shooting at a generated asteroid.  NewGame makes one asteroid of
\* the smallest, a middle or the largest size, falling down the ship's column;
\* the ship flies up to meet it and may fire once the asteroid is on the canvas
\* and within ShootGap of it.  The clock jumps once, at any frame, by the
\* power-up period: a double-damage power-up then lies on the ship's way.  The
\* later asteroids leave at once.
ShootGap == 100
ShootJump == 30
ShootClock == 30
ShootShots == 3

Targets ==
    {[X |-> 400, Size |-> s, Angle |-> 1, Speed |-> 3, NumVertices |-> 3] : s \in {12, 22, 49}}

Boost == {[X |-> 400, Y |-> 290, Type |-> DoubleDamage]}

InitShoot == InitWith(Targets)

NextShoot ==
    \/ Frame({0, ShootJump}, {{"Up"}}, {400}, Vanish, Boost, {<<0, 2>>}, ShootClock, ShootShots)
    \/ /\ \E i \in DOMAIN asteroids :
              asteroids[i].Y >= 0 /\ ship.Y - asteroids[i].Y <= ShootGap
       /\ Frame({0, ShootJump}, {{"Up", "Space"}}, {400}, Vanish, Boost, {<<0, 2>>},
                ShootClock, ShootShots)

SpecShoot == InitShoot /\ [][NextShoot]_vars

\* SpecCrash: asteroids against the ship.  The ship idles at the top of its
\* column, where every asteroid made falls on it: the largest in the frame
\* after it is made, the middle one after three frames, the smallest after
\* six, so that several sizes meet the ship in one frame while others are
\* still on their way.  Each new asteroid is of any of the three damage tiers.
Rocks ==
    {[X |-> 400, Size |-> s, Angle |-> 1, Speed |-> 3, NumVertices |-> 3] : s \in {12, 22, 44}}

CrashPlaces == {[X |-> 400, Y |-> 0, Angle |-> 0]}

InitCrash == InitAt(CrashPlaces)

NextCrash == Frame({0}, {{}}, {400}, Rocks, AtStart, {<<0, 2>>}, 0, 0)

SpecCrash == InitCrash /\ [][NextCrash]_vars

\* SpecEnemy: the pursuit.  The ship flies up its column or idles; the clock
\* jumps once past the enemy spawn time, and the enemy ship appears at the top
\* of the ship's column and pursues it at 6 a frame.
EnemyJump == 106
EnemyClock == 106

InitEnemy == InitWith(Vanish)

NextEnemy ==
    Frame({0, EnemyJump}, {{}, {"Up"}}, {400}, Vanish, AtStart, {<<0, 2>>}, EnemyClock, 0)

SpecEnemy == InitEnemy /\ [][NextEnemy]_vars

\* SpecScore: the score.  One frame a clock unit, for ScoreClock units.  The
\* ship flies up its column for up to ScoreUps frames of a game and, once
\* above ScoreLine, may stop and hold Space from then on, in play and on the
\* end screens.  Asteroids of the smallest tier fall down the column and, after
\* 105 units, the enemy ship comes down it into the bullets; the game ends in
\* Victory at 300 units and is reset by Space.
ScoreUps == 77
ScoreLine == 250
ScoreClock == 320
ScoreShots == 320

InitScore == InitWith(First)

NextScore ==
    \/ /\ now - gameStartTime < ScoreUps
       /\ Frame({1}, {{"Up"}}, {400}, First, AtStart, {<<0, 2>>}, ScoreClock, ScoreShots)
    \/ /\ state = Playing => ship.Y <= ScoreLine
       /\ Frame({1}, {{"Space"}}, {400}, First, AtStart, {<<0, 2>>}, ScoreClock, ScoreShots)

SpecScore == InitScore /\ [][NextScore]_vars

-----------------------------------------------------------------------------
(* Claims *)

\* C1: between the start and the end of one Update the state changes only
\* Playing -> GameOver, Playing -> Victory, GameOver -> Playing and
\* Victory -> Playing (so never GameOver <-> Victory), and it changes to
\* Playing only in an Update that receives the restart input (Space).
C1_Transitions ==
    [][state' # state =>
          \/ state = Playing /\ state' \in {GameOver, Victory}
          \/ state \in {GameOver, Victory} /\ state' = Playing /\ "Space" \in keys']_vars

\* C1 witness: a game just restarted with Space (only reset leaves no
\* asteroid) after the five minutes of a Victory.
C1_Witness ==
    /\ state = Playing /\ asteroids = <<>> /\ "Space" \in keys
    /\ gameStartTime >= victorySecs /\ highScore > 0

\* C2 as claimed: an Update in Playing that brings the ship's health to 0
\* ends in GameOver.
C2_DeathIsGameOver ==
    [][(state = Playing /\ ship.Health > 0 /\ ship'.Health = 0) => state' = GameOver]_vars

\* C3: an Update in Playing ends in Victory exactly when the time elapsed
\* since gameStartTime is at least five minutes, and the state is Victory only
\* with at least five minutes elapsed.
C3_VictoryAtThreshold ==
    [][/\ state = Playing =>
              (state' = Victory <=> now' - gameStartTime >= victorySecs)
       /\ state' = Victory => now' - gameStartTime' >= victorySecs]_vars

\* C3 witness: Victory entered with exactly five minutes elapsed.
C3_Witness ==
    state = Victory /\ now - gameStartTime = victorySecs

\* C4 as claimed: after the reset from GameOver the state is Playing, the
\* health 100, no bullets, no power-ups, exactly one asteroid, and
\* gameStartTime the clock reading.
C4_ResetAsNewGame ==
    [][(state = GameOver /\ state' = Playing) =>
          /\ ship'.Health = shipHealth
          /\ bullets' = <<>> /\ powerUps' = <<>>
          /\ Len(asteroids') = 1
          /\ gameStartTime' = now']_vars

\* C4 amended: as claimed, but with no asteroid at all: the first one is
\* generated by the next Update.
C4_ResetEmpty ==
    [][(state = GameOver /\ state' = Playing) =>
          /\ ship' = [X |-> 400, Y |-> 550, Angle |-> 0, Size |-> 20, Health |-> 100]
          /\ bullets' = <<>> /\ powerUps' = <<>>
          /\ asteroids' = <<>>
          /\ gameStartTime' = now']_vars

\* C4 witness: just after a reset from GameOver (Victory needs five minutes
\* on the clock), with a bullet-less, asteroid-less new game.
C4_Witness ==
    /\ state = Playing /\ asteroids = <<>> /\ now < victorySecs
    /\ highScore > 0 /\ "Space" \in keys

\* C5 as claimed: after a reset no entity of the previous game remains: no
\* bullet, asteroid, power-up or enemy ship, and score, asteroidsDefeated and
\* enemyShipsDestroyed are 0; an enemy ship exists in Playing only with more
\* than 105 s elapsed since gameStartTime.
C5_ResetClearsAll ==
    [][(state \in {GameOver, Victory} /\ state' = Playing) =>
          /\ bullets' = <<>> /\ asteroids' = <<>> /\ powerUps' = <<>>
          /\ enemyShip'.nil
          /\ score' = 0 /\ asteroidsDefeated' = 0 /\ enemyShipsDestroyed' = 0]_vars

\* C6: highScore changes only in an Update in Playing that brings the ship's
\* health to 0, and then to the larger of itself and the score.
C6_HighScore ==
    [][IF state = Playing /\ ship.Health > 0 /\ ship'.Health = 0
       THEN highScore' = IF score' > highScore THEN score' ELSE highScore
       ELSE highScore' = highScore]_vars

\* C6 witness: a game lost with a score below the high score of an earlier one.
C6_Witness ==
    state = GameOver /\ ship.Health = 0 /\ score < highScore

\* C7: the ship's health is within [0, 100].
C7_HealthRange ==
    ship.Health >= 0 /\ ship.Health <= shipHealth

\* C7 witness: health 0 where no shot was fired: every asteroid has its full
\* size, the damages are 5 and 15, and 100 is not 5 + 15 n or 15 n: the last
\* collision took the health below 0.
C7_Witness ==
    ship.Health = 0 /\ state = GameOver /\ nextId = 0

\* C8: the ship's position is within [0, 800] x [0, 600], whatever subsets of
\* the four direction keys are held frame after frame.
C8_ShipOnCanvas ==
    /\ ship.X >= 0 /\ ship.X <= screenWidth
    /\ ship.Y >= 0 /\ ship.Y <= screenHeight

\* C8 witness: the first frame, with Down and Left held, of a ship that was
\* at most 2 from the bottom edge and on the left edge: it is in the corner.
C8_Witness ==
    /\ now = 1 /\ keys = {"Down", "Left"}
    /\ ship.X = 0 /\ ship.Y = screenHeight

\* C9: after an Update in Playing every bullet is within [0, 800] x [0, 600];
\* every bullet that is still there has moved exactly once, by bulletSpeed
\* along its angle, and the only other bullet is the one fired in this frame
\* (id nextId), one step from the ship; the ids still to come are larger than
\* every id used, so a bullet that has left never comes back.
C9_Bullets ==
    [][/\ state = Playing =>
              \A i \in DOMAIN bullets' :
                  LET b == bullets'[i] IN
                  /\ b.X >= 0 /\ b.X <= screenWidth
                  /\ b.Y >= 0 /\ b.Y <= screenHeight
                  /\ \/ \E j \in DOMAIN bullets :
                            /\ bullets[j].id = b.id
                            /\ b.Angle = bullets[j].Angle
                            /\ b.X = bullets[j].X + bulletSpeed * Cos(b.Angle)
                            /\ b.Y = bullets[j].Y + bulletSpeed * Sin(b.Angle)
                     \/ /\ b.id = nextId /\ "Space" \in keys'
                        /\ b.Angle = ship'.Angle
                        /\ b.X = ship'.X + bulletSpeed * Cos(b.Angle)
                        /\ b.Y = ship'.Y + bulletSpeed * Sin(b.Angle)
       /\ nextId' >= nextId
       /\ \A i \in DOMAIN bullets' : bullets'[i].id < nextId'
       /\ \A i \in DOMAIN bullets' :
              bullets'[i].id >= nextId \/ \E j \in DOMAIN bullets : bullets[j].id = bullets'[i].id]_vars

\* C9 witness: of two bullets fired to the right the first has left and the
\* second is on the right edge.
C9_Witness ==
    /\ nextId = 2 /\ Len(bullets) = 1
    /\ bullets[1].id = 1 /\ bullets[1].X = screenWidth /\ bullets[1].Angle = 0

\* C10: in an Update in Playing no power-up the ship touches stays: the old
\* ones it does not touch stay, in order.  If it touches old ones, powerUp is
\* the Type of the first of them (the last one activated); if it touches only
\* the one spawned in this Update, powerUp is that one's type; in both cases,
\* whatever powerUp was, powerUpEnd is the clock reading + 30.
C10_PickUp ==
    [][state = Playing =>
          LET touched(p) == collidesWithPowerUp(ship', p)
              untouched(p) == ~touched(p)
              kept == SelectSeq(powerUps, untouched)
              picked == {i \in DOMAIN powerUps : touched(powerUps[i])}
              first == CHOOSE i \in picked : \A j \in picked : i <= j
              spawned == lastPowerUpSpawn' # lastPowerUpSpawn
          IN  /\ \A i \in DOMAIN powerUps' : untouched(powerUps'[i])
              /\ Len(powerUps') >= Len(kept)
              /\ SubSeq(powerUps', 1, Len(kept)) = kept
              /\ picked # {} =>
                     /\ powerUp' = powerUps[first].Type
                     /\ powerUpEnd' = now' + powerUpDuration
              /\ (picked = {} /\ spawned /\ Len(powerUps') = Len(powerUps)) =>
                     /\ powerUp' \in {Nuke, DoubleDamage, InfiniteAmmo}
                     /\ powerUpEnd' = now' + powerUpDuration
              /\ (picked = {} /\ ~(spawned /\ Len(powerUps') = Len(powerUps))) =>
                     powerUpEnd' = powerUpEnd]_vars

\* C10 witness: a Nuke picked up at 60 s while DoubleDamage, picked up not
\* before 30 s, was active: a bullet of damage 2 is still in flight.
C10_Witness ==
    /\ now = 60 /\ powerUp = Nuke /\ powerUpEnd = now + powerUpDuration
    /\ \E i \in DOMAIN bullets : bullets[i].Damage = 2

\* C11 as claimed: an Update in Playing that reads a clock later than the
\* stored expiry powerUpEnd and picks up no power-up (powerUpEnd stays) ends
\* with no active power-up.
C11_ExpiresAtEnd ==
    [][(state = Playing /\ now' > powerUpEnd /\ powerUpEnd' = powerUpEnd) =>
          powerUp' = None]_vars

\* C13: an Update in Playing appends one bullet if Space is held and none
\* otherwise (nextId counts the bullets appended, so N frames of fire append
\* N).  The bullet has the ship's angle, has moved one step from the ship's
\* place (projectile integration follows in the same Update), and has damage
\* 2 if DoubleDamage was active when the Update began and 1 otherwise; it is
\* the last of the bullets unless that step took it off the canvas.
C13_Fire ==
    [][state = Playing =>
          /\ nextId' = IF "Space" \in keys' THEN nextId + 1 ELSE nextId
          /\ \A i \in DOMAIN bullets' :
                 bullets'[i].id = nextId =>
                     /\ i = Len(bullets')
                     /\ bullets'[i].Angle = ship'.Angle
                     /\ bullets'[i].X = ship'.X + bulletSpeed * Cos(ship'.Angle)
                     /\ bullets'[i].Y = ship'.Y + bulletSpeed * Sin(ship'.Angle)
                     /\ bullets'[i].Damage = IF powerUp = DoubleDamage THEN 2 ELSE 1
          /\ LET x == ship'.X + bulletSpeed * Cos(ship'.Angle)
                 y == ship'.Y + bulletSpeed * Sin(ship'.Angle)
             IN  ("Space" \in keys' /\ x >= 0 /\ x <= screenWidth
                                    /\ y >= 0 /\ y <= screenHeight
                                    /\ asteroidsDefeated' = asteroidsDefeated) =>
                     /\ bullets' # <<>>
                     /\ bullets'[Len(bullets')].id = nextId]_vars

\* C13 witness: two frames of fire in a row with DoubleDamage active: two
\* bullets of damage 2, the second one step from the ship, the first two
\* steps from where the ship was a frame (4 down) before.
C13_Witness ==
    /\ nextId = 2 /\ Len(bullets) = 2 /\ "Space" \in keys
    /\ bullets[1].Damage = 2 /\ bullets[2].Damage = 2
    /\ bullets[2].Y = ship.Y + bulletSpeed
    /\ bullets[1].Y = ship.Y - shipSpeed + 2 * bulletSpeed

\* C14: an Update in GameOver or Victory without Space leaves the ship, the
\* enemy ship, the bullets, asteroids and power-ups, score, highScore, the
\* active power-up and the state as they are.
C14_Frozen ==
    [][(state \in {GameOver, Victory} /\ "Space" \notin keys') =>
          UNCHANGED <<ship, enemyShip, bullets, asteroids, powerUps, score,
                      highScore, powerUp, state>>]_vars

\* C14 witness: GameOver with five minutes on the clock: the game was lost
\* before (at five minutes the Update ends in Victory), and an Update in
\* GameOver has read the clock since.
C14_Witness ==
    /\ state = GameOver /\ now - gameStartTime >= victorySecs
    /\ asteroids # <<>> /\ "Space" \notin keys

\* C12: an Update in which splitAsteroid is called (once) is one in which an
\* asteroid p, moved one step and hit, has size S = p.Size - 5; afterwards
\* exactly two asteroids are at its place, next to each other at the end of
\* the list, each of size S/2, with p's vertex count, 1.5 times its speed and
\* health floor(S/2), and p itself, whole or hit, is not in the list.
C12_Split ==
    [][splits' # splits =>
          /\ splits' = splits + 1
          /\ \E i \in DOMAIN asteroids :
                 LET p == asteroids[i]
                     S == p.Size - sizeLoss
                     px == p.X + p.Speed * Cos(p.Angle)
                     py == p.Y + p.Speed * Sin(p.Angle)
                     there == {m \in DOMAIN asteroids' :
                                   asteroids'[m].X = px /\ asteroids'[m].Y = py}
                 IN  /\ Cardinality(there) = 2
                     /\ \E n \in there : there = {n, n + 1}
                     /\ \A m \in there :
                            /\ 2 * asteroids'[m].Size = S
                            /\ asteroids'[m].NumVertices = p.NumVertices
                            /\ 2 * asteroids'[m].Speed = 3 * p.Speed
                            /\ asteroids'[m].Health = S \div 2
                            /\ asteroids'[m].Size # p.Size
                            /\ asteroids'[m].Size # S]_vars

\* C12 witness: the asteroid of size 31 hit once: no asteroid of size 31 or 26
\* but two of size 13 and health 13 at one place.
C12_Witness ==
    /\ splits = 1 /\ asteroidsDefeated = 1
    /\ \E n \in DOMAIN asteroids :
           /\ n + 1 \in DOMAIN asteroids
           /\ asteroids[n].Size = 13 /\ asteroids[n].Health = 13
           /\ asteroids[n + 1].Size = 13 /\ asteroids[n + 1].Health = 13
           /\ asteroids[n].X = asteroids[n + 1].X /\ asteroids[n].Y = asteroids[n + 1].Y
    /\ \A n \in DOMAIN asteroids : asteroids[n].Size \notin {26, 31}

C16_Cap ==
    Len(asteroids) <= maxAsteroids

\* C16 witness: the cap is reached in play and the last Update added nothing:
\* the newest asteroid has already moved from where it was made.
C16_Witness ==
    /\ state = Playing
    /\ Len(asteroids) = maxAsteroids
    /\ asteroids[maxAsteroids].Y > -asteroidMargin


\* C17: in a game started by NewGame no Update calls splitAsteroid; every
\* asteroid left after an Update has size >= 10 and health >= 1; and an Update
\* that counts an asteroid as destroyed by a bullet had an asteroid whose size
\* less the 5 of a hit is below 10 and that is not there afterwards.
C17_NoSplit ==
    [][/\ splits' = 0
       /\ \A i \in DOMAIN asteroids' :
              asteroids'[i].Size >= minSize /\ asteroids'[i].Health >= 1
       /\ asteroidsDefeated' > asteroidsDefeated =>
              \E i \in DOMAIN asteroids :
                  /\ asteroids[i].Size - sizeLoss < minSize
                  /\ \A m \in DOMAIN asteroids' :
                         asteroids'[m].Y # asteroids[i].Y + asteroids[i].Speed]_vars

\* C17 witness: the asteroid of size 22 after two hits of damage 2 and one of
\* damage 1 (size 7: destroyed, with 17 of its health left), no split.
C17_Witness ==
    /\ asteroidsDefeated = 1 /\ splits = 0
    /\ nextId = 3 /\ bullets = <<>>
    /\ powerUp = DoubleDamage
    /\ ship.Health = shipHealth


\* C18: in an Update in play with no bullet in flight, the asteroids that,
\* moved one step, are within their size plus the ship's size of the ship
\* each take 5 (size < 20), 15 (size < 40) or 25 off the ship's health, which
\* stops at 0; they are not in the collection afterwards and there is no
\* split; the others, moved, are all there in their order, before the
\* asteroid the Update may have made.
C18_Crash ==
    [][(state = Playing /\ bullets = <<>> /\ bullets' = <<>>) =>
          LET moved == [i \in DOMAIN asteroids |->
                           [asteroids[i] EXCEPT
                                !.X = @ + asteroids[i].Speed * Cos(asteroids[i].Angle),
                                !.Y = @ + asteroids[i].Speed * Sin(asteroids[i].Angle)]]
              touches(a) == (ship'.X - a.X) * (ship'.X - a.X) + (ship'.Y - a.Y) * (ship'.Y - a.Y)
                                <= (a.Size + ship'.Size) * (a.Size + ship'.Size)
              stays(a) == ~gone(a) /\ ~touches(a)
              hits == {i \in DOMAIN moved : ~gone(moved[i]) /\ touches(moved[i])}
              total == 5 * Cardinality({i \in hits : moved[i].Size < 20})
                       + 15 * Cardinality({i \in hits : moved[i].Size >= 20 /\ moved[i].Size < 40})
                       + 25 * Cardinality({i \in hits : moved[i].Size >= 40})
              kept == SelectSeq(moved, stays)
          IN  /\ ship'.Health = IF ship.Health - total > 0 THEN ship.Health - total ELSE 0
              /\ splits' = splits
              /\ Len(asteroids') \in {Len(kept), Len(kept) + 1}
              /\ SubSeq(asteroids', 1, Len(kept)) = kept]_vars

\* C18 witness: one asteroid of the largest tier has met the ship, the next
\* one is on its way.
C18_Witness ==
    /\ state = Playing
    /\ ship.Health = shipHealth - 25
    /\ Len(asteroids) = 1


\* C19 as claimed: in an Update in play the ship's position changes along at
\* most one axis, whatever direction keys are held, and the angle is one of
\* the four cardinal values (here -1, 1, 2, 0 quarter turns).
C19_OneAxis ==
    [][state = Playing =>
          /\ ship'.X = ship.X \/ ship'.Y = ship.Y
          /\ ship'.Angle \in {-1, 1, 2, 0}]_vars

\* C19 amended: every held direction key moves the ship, in the order up,
\* down, left, right, each move clamped to the canvas on its own: a vertical
\* and a horizontal key together move the ship along both axes.  Only the
\* angle is that of the last held key in that order, one of the four cardinal
\* values, and the angle is unchanged with no direction key held.
C19_EachKeyMoves ==
    [][state = Playing =>
          LET lo(v) == IF v < 0 THEN 0 ELSE v
              y1 == IF "Up" \in keys' THEN lo(ship.Y - shipSpeed) ELSE ship.Y
              y2 == IF "Down" \in keys'
                    THEN (IF y1 + shipSpeed > screenHeight THEN screenHeight ELSE y1 + shipSpeed)
                    ELSE y1
              x1 == IF "Left" \in keys' THEN lo(ship.X - shipSpeed) ELSE ship.X
              x2 == IF "Right" \in keys'
                    THEN (IF x1 + shipSpeed > screenWidth THEN screenWidth ELSE x1 + shipSpeed)
                    ELSE x1
          IN  /\ ship'.Y = y2
              /\ ship'.X = x2
              /\ ship'.Angle = IF "Right" \in keys' THEN 0
                               ELSE IF "Left" \in keys' THEN 2
                               ELSE IF "Down" \in keys' THEN 1
                               ELSE IF "Up" \in keys' THEN -1
                               ELSE ship.Angle
              /\ ship'.Angle \in {-1, 1, 2, 0}]_vars

\* C19 witness: Up and Right held for one frame from the middle of the bottom
\* edge zone: the ship has moved along both axes and faces right.
C19_Witness ==
    /\ now = 1 /\ keys = {"Up", "Right"}
    /\ ship.X = 404 /\ ship.Y = 546 /\ ship.Angle = 0


\* C20 as claimed: an Update in play that starts with the enemy ship at the
\* ship's place (distance 0 in the AI step) leaves the enemy ship, if it is
\* still there, at a well-defined point.
C20_ZeroDistanceGuard ==
    [][(/\ state = Playing
        /\ ~enemyShip.nil
        /\ ~enemyShip.NaN
        /\ enemyShip.X = ship.X
        /\ enemyShip.Y = ship.Y
        /\ ~enemyShip'.nil) => ~enemyShip'.NaN]_vars


\* C21: in every state score = asteroidsDefeated + 100 * enemyShipsDestroyed,
\* and the score never goes down in an Update that is not a reset (a reset is
\* an Update on an end screen with Space held).
C21_Score ==
    /\ [](score = asteroidsDefeated + 100 * enemyShipsDestroyed)
    /\ [][~(state \in {GameOver, Victory} /\ "Space" \in keys') => score' >= score]_vars

\* C21 witness: an enemy ship and asteroids have been shot in one game.
C21_Witness ==
    /\ state = Playing
    /\ enemyShipsDestroyed = 1
    /\ asteroidsDefeated > 0
    /\ score = asteroidsDefeated + 100

=============================================================================
